---- MODULE Spec2Model ----
(***************************************************************************)
(* Model of the Markdown -> Webflow CMS sync script (tools/sync-webflow.js, *)
(* kept in src/tools/inspect-items.js from line 126 on): change-set        *)
(* resolution, per-file processing, create-vs-update, write-back dispatch, *)
(* run summary and exit code, and repeated runs over the same repository;  *)
(* of its boolean normalisation taken on its own; of the frontmatter       *)
(* validator tools/validate-frontmatter.js; and of the retryWithBackoff    *)
(* and RateLimiter sketches of docs/production_readiness.md.               *)
(***************************************************************************)
EXTENDS Integers, Sequences, FiniteSets, TLC

\* ------------------------------------------------------------------ bounds
\* largest maxAttempts retryWithBackoff is called with
MaxTry == 5
\* number of concurrent callers of RateLimiter.acquire
NCallers == 2
\* last instant of the clock the rate limiter is observed at
MaxClock == 4
\* number of markdown files under posts/ in the repository
NDocs == 2
\* number of sync runs (workflow executions) over the repository
MaxRuns == 2

Docs == 1..NDocs

\* ------------------------------------------------------------- characters
\* Strings are sequences of one-character strings.
Lower == << "a", "b", "h", "i", "e", "f", "l", "n", "o", "r", "s", "t", "u", "y" >>
Upper == << "A", "B", "H", "I", "E", "F", "L", "N", "O", "R", "S", "T", "U", "Y" >>
Digits == {"1"}
Punct == {"'", "\"", ".", ",", "!", "?", "(", ")", "[", "]"}
Space == {" "}

IndexOf(seq, c) == CHOOSE k \in 1..Len(seq) : seq[k] = c
InSeq(seq, c) == \E k \in 1..Len(seq) : seq[k] = c

toLowerCase(s) ==
  [k \in 1..Len(s) |-> IF InSeq(Upper, s[k]) THEN Lower[IndexOf(Upper, s[k])] ELSE s[k]]

RECURSIVE trimStart(_)
trimStart(s) ==
  IF s # <<>> /\ Head(s) \in Space THEN trimStart(Tail(s)) ELSE s

RECURSIVE trimEnd(_)
trimEnd(s) ==
  IF s # <<>> /\ s[Len(s)] \in Space THEN trimEnd(SubSeq(s, 1, Len(s) - 1)) ELSE s

trim(s) == trimEnd(trimStart(s))

IsAlnum(c) == InSeq(Lower, c) \/ c \in Digits

\* .replace(/['".,!?()[\]]+/g, "")
stripPunct(s) == SelectSeq(s, LAMBDA c : c \notin Punct)

\* .replace(/[^a-z0-9]+/g, "-")
RECURSIVE hyphenate(_)
hyphenate(s) ==
  IF s = <<>> THEN <<>>
  ELSE IF IsAlnum(Head(s)) THEN <<Head(s)>> \o hyphenate(Tail(s))
  ELSE IF Len(s) > 1 /\ ~IsAlnum(s[2]) THEN hyphenate(Tail(s))
  ELSE <<"-">> \o hyphenate(Tail(s))

\* .replace(/^-+|-+$/g, "")
RECURSIVE stripHyphensStart(_)
stripHyphensStart(s) ==
  IF s # <<>> /\ Head(s) = "-" THEN stripHyphensStart(Tail(s)) ELSE s

RECURSIVE stripHyphensEnd(_)
stripHyphensEnd(s) ==
  IF s # <<>> /\ s[Len(s)] = "-" THEN stripHyphensEnd(SubSeq(s, 1, Len(s) - 1)) ELSE s

kebab(str) ==
  stripHyphensEnd(stripHyphensStart(hyphenate(stripPunct(toLowerCase(trim(str))))))


\* ------------------------------------------------------------ frontmatter
\* Two titles whose derived slugs collide.
TitleA == << "H", "i", "!" >>
TitleB == << " ", "h", "i" >>
\* A title of punctuation only, and a slug given in the frontmatter.
TitleP == << "?", "!" >>
SlugS == << "a", "b" >>
NoTitle == << >>

\* fm.data as gray-matter returns it.  wellformed = FALSE: matter(src) throws.
\* push: value of push_to_webflow ("absent", a YAML boolean, or a string);
\* date: "absent", "valid" (a Date or a parseable string), "invalid" (a
\* string new Date() cannot parse); post_id: 0 when absent or empty;
\* published: value of published, as push.
Fm(w, p, t, d, id) ==
  [wellformed |-> w, push |-> p, title |-> t, date |-> d, post_id |-> id,
   slug |-> << >>, published |-> "absent"]

PushVals == {"absent", "bool_true", "bool_false", "str_true", "str_false", "str_other"}

\* the documents file k of the repository may hold
ShapesFor(k) ==
  {Fm(FALSE, "absent", NoTitle, "absent", 0)}
    \cup {Fm(TRUE, p, NoTitle, "valid", 0) : p \in {"bool_true", "bool_false"}}
    \cup {Fm(TRUE, p, TitleA, "valid", id) :
            p \in {"bool_false", "bool_true"}, id \in {0, k}}
    \cup {Fm(TRUE, "str_false", TitleA, "valid", 0)}
    \cup {Fm(TRUE, "bool_true", TitleB, "valid", 0)}
    \cup {Fm(TRUE, "bool_true", TitleA, "invalid", 0)}
    \cup {Fm(TRUE, "absent", TitleA, "absent", 0)}
    \cup {Fm(TRUE, "bool_true", TitleA, "absent", k)}
    \cup {Fm(TRUE, "bool_true", TitleP, "valid", 0)}
    \cup {[Fm(TRUE, "bool_true", TitleA, "valid", 0) EXCEPT !.slug = SlugS]}
    \cup {Fm(TRUE, "absent", NoTitle, "valid", 0)}
    \cup {[Fm(TRUE, "bool_true", TitleB, "valid", k) EXCEPT !.published = pb] :
            pb \in {"bool_true", "str_true", "bool_false"}}

AllShapes == UNION {ShapesFor(k) : k \in Docs}

\* processFile: ["published", "push_to_webflow"].forEach(... /^(true|yes|1)$/i.test(v))
normalizeBool(v) ==
  IF v = "str_true" THEN "bool_true"
  ELSE IF v \in {"str_false", "str_other"} THEN "bool_false"
  ELSE v

\* processFile hands upsertWebflowItem fm.data with both booleans normalised
normalized(fm) ==
  [fm EXCEPT !.push = normalizeBool(fm.push),
             !.published = normalizeBool(fm.published)]

\* Boolean(v) of a frontmatter value: a YAML true, or a non-empty string
Boolean(v) == v \in {"bool_true", "str_true", "str_false", "str_other"}

\* variant: the flag compared with the string "false", which the
\* normalisation has already turned into a boolean
pushFlag_stringCompare(fm) == fm.push # "str_false"

\* const pushFlag = fm.push_to_webflow !== false
pushFlag(fm) == fm.push # "bool_false"

\* const slug = fm.slug ? String(fm.slug) : kebab(fm.title)
slugOf(fm) == IF fm.slug # << >> THEN fm.slug ELSE kebab(fm.title)

\* variant: the draft flag copies the published flag
isDraftOf_same(published) == published

\* isDraft: !published
isDraftOf(published) == ~published

\* variant: the publish date is always the time of the run
publishDateOf_now(fm, now) == now

\* fm.date ? new Date(fm.date).toISOString() : new Date().toISOString()
\* 0 stands for the instant fm.date names, now >= 1 for the time of the run
publishDateOf(fm, now) == IF fm.date = "absent" THEN now ELSE 0

\* the payload upsertWebflowItem builds from normalised frontmatter fm
payloadOf(fm, now) ==
  [isArchived |-> FALSE,
   isDraft |-> isDraftOf(Boolean(fm.published)),
   name |-> fm.title,
   slug |-> slugOf(fm),
   publishDate |-> publishDateOf(fm, now),
   isPublished |-> Boolean(fm.published),
   pushToWebflow |-> TRUE,
   postId |-> fm.post_id]

\* ------------------------------------------------------------------ paths
POSTS_DIR == "posts"
Dirs == {"posts/", "posts-old/", "docs/"}
\* doc = 0: no file exists at the path (e.g. deleted in the last commit)
Path(dir, md, doc) == [dir |-> dir, md |-> md, doc |-> doc]
PostPath(k) == Path("posts/", TRUE, k)
DeletedPost == Path("posts/", TRUE, 0)

\* f.startsWith(POSTS_DIR)
startsWithPostsDir(f) == f.dir \in {"posts/", "posts-old/"}
\* f.startsWith(`${POSTS_DIR}/`)
startsWithPostsSlash(f) == f.dir = "posts/"

\* variant: the posts directory is walked without checking that it exists
getAllMarkdown_noCheck(exists) == [k \in 1..NDocs |-> PostPath(k)]

\* return fs.existsSync(POSTS_DIR) ? walk(POSTS_DIR) : []
getAllMarkdown(exists) ==
  IF exists THEN [k \in 1..NDocs |-> PostPath(k)] ELSE << >>

\* variant: git diff is tried before CHANGED_FILES is looked at
getChangedMarkdown_gitFirst(c) ==
  IF c.git = "diff" THEN c.diff
  ELSE IF c.changedSet
  THEN SelectSeq(c.changed, LAMBDA f : f.md /\ startsWithPostsDir(f))
  ELSE getAllMarkdown(c.postsExist)

\* variant: a first commit has no diff, so nothing is returned
getChangedMarkdown_firstEmpty(c) ==
  IF c.changedSet
  THEN SelectSeq(c.changed, LAMBDA f : f.md /\ startsWithPostsDir(f))
  ELSE IF c.git = "diff" THEN c.diff
  ELSE IF c.git = "first" THEN << >>
  ELSE getAllMarkdown(c.postsExist)

\* c.changedSet: CHANGED_FILES !== undefined, c.changed its non-empty lines;
\* c.git: "diff" (git diff ran, output c.diff), "first" (no parent commit and
\* commit count 1), "fail" (any git command threw);
\* c.parent: HEAD~1 exists;
\* c.eventSet / c.event: GITHUB_EVENT_PATH and the modified files it lists;
\* c.postsExist: the posts directory exists.
getChangedMarkdown(c) ==
  IF c.changedSet
  THEN SelectSeq(c.changed, LAMBDA f : f.md /\ startsWithPostsDir(f))
  ELSE IF c.git = "diff" THEN c.diff
  ELSE IF c.git = "first" THEN getAllMarkdown(c.postsExist)
  ELSE LET markdownFiles ==
             SelectSeq(c.event, LAMBDA f : startsWithPostsSlash(f) /\ f.md)
       IN IF c.eventSet /\ Len(markdownFiles) > 0 THEN markdownFiles
          ELSE getAllMarkdown(c.postsExist)

\* what getChangedMarkdown reads on its way to the result: the CHANGED_FILES
\* variable, git (execSync), the event payload, the posts directory (walk)
consultedSources(c) ==
  IF c.changedSet THEN {"CHANGED_FILES"}
  ELSE IF c.git = "diff" THEN {"git"}
  ELSE IF c.git = "first" THEN {"git", "walk"}
  ELSE LET markdownFiles ==
             SelectSeq(c.event, LAMBDA f : startsWithPostsSlash(f) /\ f.md)
       IN {"git"} \cup (IF c.eventSet THEN {"event"} ELSE {})
                  \cup (IF c.eventSet /\ Len(markdownFiles) > 0 THEN {}
                        ELSE {"walk"})

Ctx(cs, ch, g, hp, d, es, ev, ex) ==
  [changedSet |-> cs, changed |-> ch, git |-> g, parent |-> hp, diff |-> d,
   eventSet |-> es, event |-> ev, postsExist |-> ex]

\* delta contexts of the runs: an empty CHANGED_FILES; a git diff naming a
\* post deleted by the commit, the last post and the first; every git
\* command failing; the same in a checkout without a posts directory
CtxEmpty == Ctx(TRUE, << >>, "fail", TRUE, << >>, FALSE, << >>, TRUE)
CtxDiff ==
  Ctx(FALSE, << >>, "diff", TRUE, << DeletedPost, PostPath(NDocs), PostPath(1) >>,
      FALSE, << >>, TRUE)
CtxFallback == Ctx(FALSE, << >>, "fail", TRUE, << >>, FALSE, << >>, TRUE)
CtxNoPosts == Ctx(FALSE, << >>, "fail", TRUE, << >>, FALSE, << >>, FALSE)
RunContexts == {CtxEmpty, CtxDiff}

\* the contexts change-set resolution is examined in: file lists that
\* CHANGED_FILES or the event payload may carry, the output of
\* git diff -- 'posts/**/*.md', and the outcomes of the git commands
PathLists ==
  { << >>,
    << PostPath(1) >>,
    << Path("posts-old/", TRUE, 0), PostPath(NDocs) >>,
    << Path("docs/", TRUE, 0), Path("posts/", FALSE, 0) >>,
    << DeletedPost, PostPath(NDocs), PostPath(1) >> }
DiffLists ==
  { << >>, << PostPath(1) >>, << DeletedPost, PostPath(NDocs), PostPath(1) >> }
GitStates ==
  {[git |-> "diff", parent |-> TRUE, diff |-> d] : d \in DiffLists}
    \cup {[git |-> "first", parent |-> FALSE, diff |-> << >>]}
    \cup {[git |-> "fail", parent |-> hp, diff |-> << >>] : hp \in BOOLEAN}
EventStates ==
  {[set |-> FALSE, files |-> << >>]}
    \cup {[set |-> TRUE, files |-> ev] : ev \in PathLists}
ChangedStates ==
  {[set |-> FALSE, files |-> << >>]}
    \cup {[set |-> TRUE, files |-> ch] : ch \in PathLists}
ResolveContexts ==
  {Ctx(ch.set, ch.files, g.git, g.parent, g.diff, es.set, es.files, ex) :
     ch \in ChangedStates, g \in GitStates, es \in EventStates, ex \in BOOLEAN}

\* ------------------------------------------------------------------ store
\* HTTP status of a Webflow response; res.ok is 2xx.
Statuses == {200, 400, 401, 404, 429, 500}
\* variant: a 404 is not treated as a failure
resOk_notFoundOk(st) == st = 200 \/ st = 404

resOk(st) == st = 200
Transient(st) == st = 429 \/ st >= 500

\* ------------------------------------------------------------------ state
VARIABLES
  corpus,          \* repository: file k of posts/ |-> its frontmatter
  written,         \* files whose post_id the write-back workflow has set
  all, dryRun,     \* parseArgs(): --all, --dry-run
  envOk,           \* WEBFLOW_TOKEN and WEBFLOW_COLLECTION_ID are set
  ctx,             \* what delta detection sees (CHANGED_FILES, git, event)
  hasDispatchEnv,  \* GITHUB_TOKEN (or GH_TOKEN_WITH_WRITE) and REPO are set
  run,             \* number of the current run
  pc,              \* position of main(): start, loop, await_store, await_dispatch, done
  files, i,        \* the change set and the index of the file being processed
  successCount, errorCount, exitCode,
  outcome,         \* outcome of files[1..], in order
  lastStatus,      \* status of the Webflow response to the current file, 0 if none
  calls,           \* Webflow requests issued in this run
  dispatchCalls,   \* repository_dispatch requests issued in this run
  remote,          \* Webflow items created by the script, over all runs
  pending,         \* write-back events accepted by GitHub, not yet applied
  consulted,       \* what change-set resolution read in this run
  stored           \* Webflow: item id |-> the payload last accepted for it

syncVars == << corpus, written, all, dryRun, envOk, ctx, hasDispatchEnv, run, pc,
               files, i, successCount, errorCount, exitCode, outcome, lastStatus,
               calls, dispatchCalls, remote, pending, consulted, stored >>

\* state of tools/validate-frontmatter.js
VARIABLES
  posts,           \* the markdown files it finds under posts/
  vpc,             \* position of its main(): off, start, loop, done
  vi,              \* index of the file being validated
  hasErrors,       \* let hasErrors
  reports,         \* per validated file: the fields fail() and warn() named
  vexit            \* code passed to process.exit, -1 while running

lintVars == << posts, vpc, vi, hasErrors, reports, vexit >>

\* state of the boolean normalisation examined on its own
VARIABLES
  field,           \* "published" or "push_to_webflow"
  raw,             \* the value gray-matter returned for it
  flag             \* the boolean upsertWebflowItem derives, "none" before

coerceVars == << field, raw, flag >>

\* state of retryWithBackoff (docs/production_readiness.md)
VARIABLES
  maxAttempts, baseDelay,  \* its arguments
  rpc,             \* off, try, sleep, returned, thrown
  attempt,         \* let attempt
  history,         \* what the invocations of fn produced, in order
  delays,          \* the delays slept between attempts, in ms
  result           \* what the call returned or threw

retryVars == << maxAttempts, baseDelay, rpc, attempt, history, delays, result >>

\* state of a RateLimiter and its callers (docs/production_readiness.md)
VARIABLES
  maxRequests, windowMs,   \* constructor arguments
  clock,           \* Date.now()
  requests,        \* this.requests
  callers          \* per caller of acquire(): idle, sleeping (until wake), done

limiterVars == << maxRequests, windowMs, clock, requests, callers >>

sketchVars == << retryVars, limiterVars >>

vars == << syncVars, lintVars, coerceVars, sketchVars >>

\* the arguments and environment of the sync script, and the state of the
\* other tools, none of which a sync run changes
env == << all, dryRun, envOk, ctx, hasDispatchEnv, lintVars, coerceVars,
         sketchVars >>

\* the first run of the script is about to start; Webflow holds nothing of it
Fresh ==
  /\ written = {}
  /\ run = 1
  /\ files = << >>
  /\ i = 0
  /\ successCount = 0
  /\ errorCount = 0
  /\ exitCode = 0
  /\ outcome = << >>
  /\ lastStatus = 0
  /\ calls = << >>
  /\ dispatchCalls = << >>
  /\ remote = {}
  /\ pending = {}
  /\ consulted = {}
  /\ stored = {}

\* validate-frontmatter.js is not running
LintOff ==
  /\ posts = << >>
  /\ vpc = "off"
  /\ vi = 0
  /\ hasErrors = FALSE
  /\ reports = << >>
  /\ vexit = -1

\* a frontmatter value as gray-matter returns it: type is "absent" (key not
\* in fm.data), "null", "boolean" (b), "string" (s) or "number" (n)
Raw(t, b, str, n) == [type |-> t, b |-> b, s |-> str, n |-> n]
Absent == Raw("absent", FALSE, << >>, 0)

\* no value is being normalised
CoerceOff ==
  /\ field = "none"
  /\ raw = Absent
  /\ flag = "none"

\* retryWithBackoff has not been called
RetryOff ==
  /\ maxAttempts = 0
  /\ baseDelay = 0
  /\ rpc = "off"
  /\ attempt = 0
  /\ history = << >>
  /\ delays = << >>
  /\ result = [kind |-> "none", of |-> 0]

\* no RateLimiter exists
LimiterOff ==
  /\ maxRequests = 0
  /\ windowMs = 0
  /\ clock = 0
  /\ requests = << >>
  /\ callers = << >>

SketchOff == RetryOff /\ LimiterOff

\* a checkout without a posts directory holds no document
NoDoc == Fm(FALSE, "absent", NoTitle, "absent", 0)

\* the sync script is not running
SyncOff ==
  /\ corpus = [k \in Docs |-> NoDoc]
  /\ all = FALSE
  /\ dryRun = FALSE
  /\ envOk = FALSE
  /\ hasDispatchEnv = FALSE
  /\ pc = "off"
  /\ Fresh

Init ==
  /\ corpus \in [Docs -> AllShapes]
  /\ \A k \in Docs : corpus[k] \in ShapesFor(k)
  /\ all \in BOOLEAN
  /\ dryRun \in BOOLEAN
  /\ envOk \in BOOLEAN
  /\ ~envOk => (all /\ ~dryRun)
  /\ ctx \in IF all THEN {CtxFallback, CtxNoPosts}
             ELSE RunContexts \cup {CtxNoPosts}
  /\ ~ctx.postsExist => corpus = [k \in Docs |-> NoDoc]
  /\ hasDispatchEnv \in BOOLEAN
  /\ pc = "start"
  /\ Fresh
  /\ LintOff
  /\ CoerceOff
  /\ SketchOff

\* ------------------------------------------------------------------- main
\* fail(): process.exitCode = 1
failExitCode(code) == 1

\* variant: the try block sets the code back to 0
outcomeExitCode_reset(failed, code) == IF failed THEN failExitCode(code) ELSE 0

\* the catch block of the loop calls fail(); the try block leaves the code alone
outcomeExitCode(failed, code) == IF failed THEN failExitCode(code) ELSE code

\* summary: if (errorCount > 0) process.exitCode = 1
summaryExitCode(ec, code) == IF ec > 0 THEN 1 ELSE code

\* variant: the loop breaks on the first failure
loopDone_breakOnError(k, n, failed) == k = n \/ failed

\* for (const f of files): the loop goes on to the next file whatever the outcome
loopDone(k, n, failed) == k = n

\* variant: successCount++ placed after the try/catch
afterSuccess_always(sc, failed) == sc + 1

\* try { await processFile(f); successCount++ } catch { errorCount++; fail(..) }
afterSuccess(sc, failed) == IF failed THEN sc ELSE sc + 1
afterError(ec, failed) == IF failed THEN ec + 1 ELSE ec

Outcome(op, err) == [op |-> op, err |-> err]

\* processFile(files[i]) has returned or thrown; main() counts it and either
\* goes on to the next file or prints the summary.
Finish(op, err) ==
  LET failed == op = "failed"
      sc == afterSuccess(successCount, failed)
      ec == afterError(errorCount, failed)
      code == outcomeExitCode(failed, exitCode)
  IN /\ outcome' = Append(outcome, Outcome(op, err))
     /\ successCount' = sc
     /\ errorCount' = ec
     /\ IF loopDone(i, Len(files), failed)
        THEN /\ pc' = "done"
             /\ exitCode' = summaryExitCode(ec, code)
             /\ i' = i
        ELSE /\ pc' = "loop"
             /\ exitCode' = code
             /\ i' = i + 1

\* main() up to the loop: requireEnv, parseArgs, change-set resolution
\* variant: a run that finds no file to process fails
noFilesExit_fails(code) == 1

\* if (files.length === 0) { log("No files to process"); return; }
noFilesExit(code) == code

Start ==
  /\ pc = "start"
  /\ IF ~envOk
     THEN /\ exitCode' = failExitCode(exitCode)
          /\ pc' = "done"
          /\ UNCHANGED << files, i, consulted >>
     ELSE LET fs == IF all THEN getAllMarkdown(ctx.postsExist)
                    ELSE getChangedMarkdown(ctx)
          IN /\ files' = fs
             /\ consulted' = IF all THEN {"walk"} ELSE consultedSources(ctx)
             /\ exitCode' = IF Len(fs) = 0 THEN noFilesExit(exitCode)
                            ELSE exitCode
             /\ IF Len(fs) = 0
                THEN pc' = "done" /\ i' = i
                ELSE pc' = "loop" /\ i' = 1
  /\ UNCHANGED << corpus, written, env, run, successCount, errorCount,
                  outcome, lastStatus, calls, dispatchCalls, remote, pending,
                  stored >>

\* variant: find-or-create by slug: a document without post_id whose slug
\* was already sent in this run updates instead of creating
requestMethod_findBySlug(fm) ==
  IF fm.post_id # 0 \/ (\E n \in 1..Len(calls) : calls[n].slug = slugOf(fm))
  THEN "PATCH" ELSE "POST"

\* variant: every document is created, whether or not it has a post_id
requestMethod_alwaysCreate(fm) == "POST"

\* if (fm.post_id) PATCH else POST
requestMethod(fm) == IF fm.post_id # 0 THEN "PATCH" ELSE "POST"

\* variant: the dry-run check is missing
dryRunReturns_ignored(dry) == FALSE

\* if (dryRun) { log(...); return; }
dryRunReturns(dry) == dry

\* variant: the title is checked before the push flag
upsertWebflowItem_titleFirst(fm, dry) ==
  IF fm.title = NoTitle THEN [act |-> "throw", op |-> "failed", err |-> "title"]
  ELSE IF ~pushFlag(fm) THEN [act |-> "return", op |-> "skipped", err |-> "none"]
  ELSE IF fm.date = "invalid" THEN [act |-> "throw", op |-> "failed", err |-> "date"]
  ELSE IF dryRunReturns(dry) THEN [act |-> "return", op |-> "dryrun", err |-> "none"]
  ELSE [act |-> "fetch", op |-> requestMethod(fm), err |-> "none"]

\* upsertWebflowItem up to its first await: what it does with frontmatter fm
upsertWebflowItem(fm, dry) ==
  IF ~pushFlag(fm) THEN [act |-> "return", op |-> "skipped", err |-> "none"]
  ELSE IF fm.title = NoTitle THEN [act |-> "throw", op |-> "failed", err |-> "title"]
  ELSE IF fm.date = "invalid" THEN [act |-> "throw", op |-> "failed", err |-> "date"]
  ELSE IF dryRunReturns(dry) THEN [act |-> "return", op |-> "dryrun", err |-> "none"]
  ELSE [act |-> "fetch", op |-> requestMethod(fm), err |-> "none"]

\* processFile: read, parse, normalise the booleans, call upsertWebflowItem
processFile(f, dry) ==
  IF f.doc = 0 \/ ~ctx.postsExist
  THEN [act |-> "throw", op |-> "failed", err |-> "ENOENT"]
  ELSE IF ~corpus[f.doc].wellformed
       THEN [act |-> "throw", op |-> "failed", err |-> "yaml"]
  ELSE upsertWebflowItem(normalized(corpus[f.doc]), dry)

\* fetch(url, { method, headers, body: JSON.stringify(payload) })
Call(m, k, doc, id, slug, body) ==
  [method |-> m, idx |-> k, doc |-> doc, id |-> id, slug |-> slug,
   body |-> body]

\* Webflow keeps the payload it accepted for item id
putItem(items, id, body) ==
  {x \in items : x.id # id} \cup {[id |-> id, body |-> body]}

\* variant: the request is not awaited, the loop goes on at once
afterFetch_noAwait(k, n) ==
  [pc |-> IF k = n THEN "done" ELSE "loop", i |-> IF k = n THEN k ELSE k + 1]

\* const res = await fetch(...): main() stays at files[k] until the response
afterFetch(k, n) == [pc |-> "await_store", i |-> k]

\* one iteration of the loop of main(), up to the Webflow request
BeginFile ==
  /\ pc = "loop"
  /\ LET f == files[i]
         r == processFile(f, dryRun)
     IN IF r.act = "fetch"
        THEN /\ calls' = Append(calls,
                   Call(r.op, i, f.doc, corpus[f.doc].post_id,
                        slugOf(corpus[f.doc]),
                        payloadOf(normalized(corpus[f.doc]), run)))
             /\ pc' = afterFetch(i, Len(files)).pc
             /\ i' = afterFetch(i, Len(files)).i
             /\ UNCHANGED << successCount, errorCount, exitCode, outcome >>
        ELSE /\ Finish(r.op, r.err)
             /\ UNCHANGED calls
  /\ lastStatus' = 0
  /\ UNCHANGED << corpus, written, env, run, files, dispatchCalls, remote,
                  pending, consulted, stored >>

\* variant: Webflow answers a create for a document it already holds an
\* item of with that item's id
newItemId_reuse ==
  IF \E r \in remote : r.src = calls[Len(calls)].doc
  THEN (CHOOSE r \in remote : r.src = calls[Len(calls)].doc).id
  ELSE NDocs + Cardinality(remote) + 1

\* data.id of the create response: Webflow gives every new item a fresh id
newItemId == NDocs + Cardinality(remote) + 1

\* variant: the dispatch is sent whether or not a token is configured
dispatchGuard_always(tokenAndRepo, itemId) == TRUE

\* if (!token || !REPO || !itemId) return
dispatchGuard(tokenAndRepo, itemId) == tokenAndRepo /\ itemId # 0

\* the Webflow response arrives: throw on !res.ok, else log and, after a
\* create, call dispatchWriteback
StoreResponse ==
  /\ pc = "await_store"
  /\ \E st \in Statuses :
       LET c == calls[Len(calls)]
       IN /\ lastStatus' = st
          /\ IF ~resOk(st)
               THEN /\ Finish("failed", "http")
                    /\ UNCHANGED << remote, dispatchCalls, stored >>
               ELSE IF c.method = "PATCH"
               THEN /\ Finish("updated", "none")
                    /\ stored' = putItem(stored, c.id, c.body)
                    /\ UNCHANGED << remote, dispatchCalls >>
               ELSE /\ remote' = remote \cup {[id |-> newItemId, src |-> c.doc]}
                    /\ stored' = putItem(stored, newItemId, c.body)
                    /\ IF dispatchGuard(hasDispatchEnv, newItemId)
                       THEN /\ dispatchCalls' = Append(dispatchCalls,
                                   [idx |-> c.idx, doc |-> c.doc,
                                    itemId |-> newItemId])
                            /\ pc' = "await_dispatch"
                            /\ UNCHANGED << i, successCount, errorCount,
                                            exitCode, outcome >>
                       ELSE /\ Finish("created", "none")
                            /\ UNCHANGED dispatchCalls
  /\ UNCHANGED << corpus, written, env, run, files, calls, pending, consulted >>

\* the GitHub response to repository_dispatch arrives; a failure is only warned
DispatchResponse ==
  /\ pc = "await_dispatch"
  /\ \E ok \in BOOLEAN :
       LET d == dispatchCalls[Len(dispatchCalls)]
       IN pending' = IF ok THEN pending \cup {[doc |-> d.doc, itemId |-> d.itemId]}
                      ELSE pending
  /\ Finish("created", "none")
  /\ UNCHANGED << corpus, written, env, run, files, lastStatus, calls,
                  dispatchCalls, remote, consulted, stored >>

\* the write-back workflow: fm.data.post_id = id, commit, push
Writeback ==
  /\ pc = "done"
  /\ \E e \in pending :
       /\ corpus' = [corpus EXCEPT ![e.doc].post_id = e.itemId]
       /\ written' = written \cup {e.doc}
       /\ pending' = pending \ {e}
  /\ UNCHANGED << env, run, pc, files, i, successCount, errorCount, exitCode,
                  outcome, lastStatus, calls, dispatchCalls, remote, consulted,
                  stored >>

\* the workflow runs the script again, with the same arguments
Rerun ==
  /\ pc = "done"
  /\ run < MaxRuns
  /\ run' = run + 1
  /\ pc' = "start"
  /\ files' = << >>
  /\ i' = 0
  /\ successCount' = 0
  /\ errorCount' = 0
  /\ exitCode' = 0
  /\ outcome' = << >>
  /\ lastStatus' = 0
  /\ calls' = << >>
  /\ dispatchCalls' = << >>
  /\ consulted' = {}
  /\ UNCHANGED << corpus, written, env, remote, pending, stored >>

\* one run of the script
Next ==
  \/ Start
  \/ BeginFile
  \/ StoreResponse
  \/ DispatchResponse

Spec == Init /\ [][Next]_vars

\* repeated full runs (--all, no --dry-run) over the repository, with the
\* write-back workflow in between
RepoShapesFor(k) ==
  {s \in ShapesFor(k) :
     /\ s.wellformed /\ s.title = TitleA /\ s.date \in {"valid", "absent"}
     /\ s.push \in {"bool_true", "bool_false"}
     /\ (s.push = "bool_false" => s.post_id = 0)
     /\ s.published = "absent" /\ s.slug = << >>}

InitRepo ==
  /\ Init
  /\ \A k \in Docs : corpus[k] \in RepoShapesFor(k)
  /\ all /\ ~dryRun /\ envOk

NextRepo ==
  \/ Next
  \/ Writeback
  \/ Rerun

SpecRepo == InitRepo /\ [][NextRepo]_vars

\* one delta run (no --all, no --dry-run) in each of the contexts change-set
\* resolution can meet, over a repository of unbound posts
InitResolve ==
  /\ ctx \in ResolveContexts
  /\ corpus = [k \in Docs |-> IF ctx.postsExist
                                THEN Fm(TRUE, "bool_true", TitleA, "valid", 0)
                                ELSE NoDoc]
  /\ all = FALSE
  /\ dryRun = FALSE
  /\ envOk = TRUE
  /\ hasDispatchEnv = TRUE
  /\ pc = "start"
  /\ Fresh
  /\ LintOff
  /\ CoerceOff
  /\ SketchOff

SpecResolve == InitResolve /\ [][Next]_vars

\* ------------------------------------------------- boolean normalisation
upperOf(c) == IF InSeq(Lower, c) THEN Upper[IndexOf(Lower, c)] ELSE c

\* the spellings of a word in every mix of letter cases
RECURSIVE CaseVariants(_)
CaseVariants(w) ==
  IF w = << >> THEN {<< >>}
  ELSE {<< c >> \o t : c \in {Head(w), upperOf(Head(w))},
                        t \in CaseVariants(Tail(w))}

WordTrue == << "t", "r", "u", "e" >>
WordYes == << "y", "e", "s" >>
WordOne == << "1" >>
WordFalse == << "f", "a", "l", "s", "e" >>

\* the strings an author may have written for a boolean field
Strings ==
  CaseVariants(WordTrue) \cup CaseVariants(WordYes) \cup {WordOne}
    \cup {WordFalse, << "F", "a", "l", "s", "e" >>, << "F", "A", "L", "S", "E" >>}
    \cup {<< >>, << "n", "o" >>, << "o", "n" >>, << "y" >>, << "1", "1" >>,
          << " ", "t", "r", "u", "e" >>, << "t", "r", "u", "e", " " >>,
          << "t", "r", "u", "e", "!" >>}

RawValues ==
  {Absent, Raw("null", FALSE, << >>, 0)}
    \cup {Raw("boolean", b, << >>, 0) : b \in BOOLEAN}
    \cup {Raw("string", FALSE, str, 0) : str \in Strings}
    \cup {Raw("number", FALSE, << >>, n) : n \in {0, 1}}

\* variant: the pattern without the i flag
regexTest_caseSensitive(str) == str \in {WordTrue, WordYes, WordOne}

\* /^(true|yes|1)$/i.test(v)
regexTest(str) == toLowerCase(str) \in {WordTrue, WordYes, WordOne}

\* if (k in fm.data) { if (typeof v === "string") fm.data[k] = regex.test(v) }
normalizeRaw(v) ==
  IF v.type = "string" THEN Raw("boolean", regexTest(v.s), << >>, 0) ELSE v

\* Boolean(v)
truthy(v) ==
  \/ v.type = "boolean" /\ v.b
  \/ v.type = "string" /\ v.s # << >>
  \/ v.type = "number" /\ v.n # 0

\* v !== false
notFalse(v) == ~(v.type = "boolean" /\ ~v.b)

\* the boolean upsertWebflowItem works with for field k of processFile's fm.data
flagOf(k, v) ==
  IF k = "published" THEN truthy(normalizeRaw(v)) ELSE notFalse(normalizeRaw(v))

Coerce ==
  /\ flag = "none"
  /\ field # "none"
  /\ flag' = IF flagOf(field, raw) THEN "true" ELSE "false"
  /\ UNCHANGED << syncVars, lintVars, sketchVars, field, raw >>

InitCoerce ==
  /\ SyncOff
  /\ SketchOff
  /\ ctx = CtxNoPosts
  /\ LintOff
  /\ field \in {"published", "push_to_webflow"}
  /\ raw \in RawValues
  /\ flag = "none"

NextCoerce == Coerce

SpecCoerce == InitCoerce /\ [][NextCoerce]_vars


\* ------------------------------------------- tools/validate-frontmatter.js
REQUIRED_FIELDS == << "title", "date", "push_to_webflow" >>

\* fm.data of a post as the validator looks at it.  title: "absent", "empty"
\* (the empty string), "string", "number"; date: "absent", "iso" (a YAML
\* date or an ISO string), "bad" (any other string); push_to_webflow:
\* "absent", "boolean", "string"; link: "ok" (absent or http(s)), "bad".
\* wellformed = FALSE: matter(raw) throws.
LintDoc(w, t, d, p, l) ==
  [wellformed |-> w, title |-> t, date |-> d, push_to_webflow |-> p, link |-> l]

LintShapes ==
  {LintDoc(FALSE, "absent", "absent", "absent", "ok")}
    \cup {LintDoc(TRUE, t, d, p, "ok") :
            t \in {"absent", "empty", "string", "number"},
            d \in {"absent", "iso", "bad"},
            p \in {"absent", "boolean", "string"}}
    \cup {LintDoc(TRUE, "string", "iso", "boolean", "bad"),
          LintDoc(TRUE, "absent", "absent", "boolean", "bad")}

Problem(kind, f) == [kind |-> kind, field |-> f]

\* variant: only the first missing field is reported
missingFields_firstOnly(data) ==
  LET missing == SelectSeq(REQUIRED_FIELDS, LAMBDA f : data[f] = "absent")
  IN IF missing = << >> THEN {} ELSE {Problem("missing", Head(missing))}

\* REQUIRED_FIELDS.forEach((f) => { if (!(f in data)) fail(...) })
missingFields(data) ==
  {Problem("missing", REQUIRED_FIELDS[n]) :
     n \in {m \in 1..Len(REQUIRED_FIELDS) : data[REQUIRED_FIELDS[m]] = "absent"}}

\* the type and format checks that call fail()
typeErrors(data) ==
  (IF data.title = "number" THEN {Problem("type", "title")} ELSE {})
    \cup (IF data.date = "bad" THEN {Problem("format", "date")} ELSE {})
    \cup (IF data.push_to_webflow = "string"
          THEN {Problem("type", "push_to_webflow")} ELSE {})

\* the checks that call warn()
warnings(data) ==
  IF data.link = "bad" THEN {Problem("url", "link")} ELSE {}

\* validateFile: what it passes to fail() and to warn()
validateFile(doc) ==
  IF ~doc.wellformed
  THEN [errors |-> {Problem("parse", "frontmatter")}, warnings |-> {}]
  ELSE [errors |-> missingFields(doc) \cup typeErrors(doc),
        warnings |-> warnings(doc)]

\* fail(): hasErrors = true
afterFail(h, errors) == h \/ errors # {}

\* variant: warn() sets hasErrors as fail() does
afterWarn_fails(h, ws) == h \/ ws # {}

\* warn(): console.warn only
afterWarn(h, ws) == h

\* if (hasErrors) process.exit(1); ... process.exit(0)
exitOf(h) == IF h THEN 1 ELSE 0

\* main up to the forEach: no posts directory or no file, exit 0
LintStart ==
  /\ vpc = "start"
  /\ IF ~ctx.postsExist \/ Len(posts) = 0
     THEN vpc' = "done" /\ vexit' = 0 /\ vi' = vi
     ELSE vpc' = "loop" /\ vexit' = vexit /\ vi' = 1
  /\ UNCHANGED << syncVars, coerceVars, sketchVars, posts, hasErrors, reports >>

\* one iteration of files.forEach(validateFile), and the exit after the last
ValidateNext ==
  /\ vpc = "loop"
  /\ LET r == validateFile(posts[vi])
         h == afterWarn(afterFail(hasErrors, r.errors), r.warnings)
     IN /\ reports' = Append(reports, r)
        /\ hasErrors' = h
        /\ IF vi = Len(posts)
           THEN vpc' = "done" /\ vexit' = exitOf(h) /\ vi' = vi
           ELSE vpc' = "loop" /\ vexit' = vexit /\ vi' = vi + 1
  /\ UNCHANGED << syncVars, coerceVars, sketchVars, posts >>

InitLint ==
  /\ SyncOff
  /\ CoerceOff
  /\ SketchOff
  /\ ctx \in {CtxFallback, CtxNoPosts}
  /\ posts \in [1..NDocs -> LintShapes] \cup {<< >>}
  /\ ~ctx.postsExist => posts = << >>
  /\ vpc = "start"
  /\ vi = 0
  /\ hasErrors = FALSE
  /\ reports = << >>
  /\ vexit = -1

NextLint ==
  \/ LintStart
  \/ ValidateNext

SpecLint == InitLint /\ [][NextLint]_vars

\* ------------------------------------- retryWithBackoff (production_readiness)
\* the cap of the delay, in ms
MaxDelay == 8000

RECURSIVE Pow2(_)
Pow2(n) == IF n = 0 THEN 1 ELSE 2 * Pow2(n - 1)

Min(a, b) == IF a < b THEN a ELSE b

\* const isRetryable = error.status >= 500 || error.status === 429
isRetryable(status) == status >= 500 \/ status = 429

\* variant: the delay is not capped
delayOf_uncapped(base, n) == base * Pow2(n - 1)

\* Math.min(baseDelay * Math.pow(2, attempt - 1), 8000)
delayOf(base, n) == Min(base * Pow2(n - 1), MaxDelay)

\* what one invocation of fn may produce: a value, or an error with a status
FnOutcomes(n) ==
  {[ok |-> TRUE, status |-> 200, at |-> n]}
    \cup {[ok |-> FALSE, status |-> st, at |-> n] : st \in {400, 429, 500}}

\* one pass of the loop body: await fn(), and the catch block
RetryAttempt ==
  /\ rpc = "try"
  /\ IF attempt > maxAttempts
     THEN /\ rpc' = "returned"
          /\ result' = [kind |-> "undefined", of |-> 0]
          /\ UNCHANGED << history, delays >>
     ELSE \E o \in FnOutcomes(attempt) :
            /\ history' = Append(history, o)
            /\ IF o.ok
               THEN /\ rpc' = "returned"
                    /\ result' = [kind |-> "value", of |-> o.at]
                    /\ delays' = delays
               ELSE IF ~isRetryable(o.status) \/ attempt = maxAttempts
               THEN /\ rpc' = "thrown"
                    /\ result' = [kind |-> "error", of |-> o.at]
                    /\ delays' = delays
               ELSE /\ rpc' = "sleep"
                    /\ result' = result
                    /\ delays' = Append(delays, delayOf(baseDelay, attempt))
  /\ UNCHANGED << syncVars, lintVars, coerceVars, limiterVars,
                  maxAttempts, baseDelay, attempt >>

\* the timer fires: attempt++
RetryWake ==
  /\ rpc = "sleep"
  /\ rpc' = "try"
  /\ attempt' = attempt + 1
  /\ UNCHANGED << syncVars, lintVars, coerceVars, limiterVars,
                  maxAttempts, baseDelay, history, delays, result >>

InitRetry ==
  /\ SyncOff
  /\ ctx = CtxNoPosts
  /\ LintOff
  /\ CoerceOff
  /\ LimiterOff
  /\ maxAttempts \in 1..MaxTry
  /\ baseDelay \in {500, 1000, 3000}
  /\ rpc = "try"
  /\ attempt = 1
  /\ history = << >>
  /\ delays = << >>
  /\ result = [kind |-> "none", of |-> 0]

NextRetry ==
  \/ RetryAttempt
  \/ RetryWake

\* fn settles and timers fire
SpecRetry == InitRetry /\ [][NextRetry]_vars /\ WF_vars(NextRetry)

\* ------------------------------------------ RateLimiter (production_readiness)
Callers == 1..NCallers

Caller(st, wake) == [pc |-> st, wake |-> wake]

\* this.requests.filter(t => now - t < this.windowMs)
inWindow(reqs, now) == SelectSeq(reqs, LAMBDA t : now - t < windowMs)

\* acquire() up to its await: drop the expired entries; when the window is
\* full, sleep until the oldest entry leaves it, else record now
Acquire(c) ==
  /\ callers[c].pc \in {"idle", "done"}
  /\ LET kept == inWindow(requests, clock)
     IN IF Len(kept) >= maxRequests
        THEN /\ requests' = kept
             /\ callers' = [callers EXCEPT
                   ![c] = Caller("sleeping", clock + (windowMs - (clock - kept[1])))]
        ELSE /\ requests' = Append(kept, clock)
             /\ callers' = [callers EXCEPT ![c] = Caller("done", 0)]
  /\ UNCHANGED << syncVars, lintVars, coerceVars, retryVars,
                  maxRequests, windowMs, clock >>

\* the sleep is over: this.requests.push(Date.now())
LimiterWake(c) ==
  /\ callers[c].pc = "sleeping"
  /\ clock >= callers[c].wake
  /\ requests' = Append(requests, clock)
  /\ callers' = [callers EXCEPT ![c] = Caller("done", 0)]
  /\ UNCHANGED << syncVars, lintVars, coerceVars, retryVars,
                  maxRequests, windowMs, clock >>

\* time passes; a timer that is due fires before it does
Tick ==
  /\ clock < MaxClock
  /\ \A c \in Callers : callers[c].pc = "sleeping" => callers[c].wake > clock
  /\ clock' = clock + 1
  /\ UNCHANGED << syncVars, lintVars, coerceVars, retryVars,
                  maxRequests, windowMs, requests, callers >>

InitLimiter ==
  /\ SyncOff
  /\ ctx = CtxNoPosts
  /\ LintOff
  /\ CoerceOff
  /\ RetryOff
  /\ maxRequests \in {1, 2}
  /\ windowMs \in {2, 3}
  /\ clock = 0
  /\ requests = << >>
  /\ callers = [c \in Callers |-> Caller("idle", 0)]

NextLimiter ==
  \/ \E c \in Callers : Acquire(c)
  \/ \E c \in Callers : LimiterWake(c)
  \/ Tick

SpecLimiter == InitLimiter /\ [][NextLimiter]_vars

\* =============================================================== properties
CallsFor(k) == SelectSeq(calls, LAMBDA c : c.idx = k)
DispatchesFor(k) == SelectSeq(dispatchCalls, LAMBDA d : d.idx = k)
Done(k) == k <= Len(outcome)
Parsed(k) == files[k].doc # 0 /\ corpus[files[k].doc].wellformed
\* the frontmatter upsertWebflowItem receives for files[k]
fmOf(k) == normalized(corpus[files[k].doc])
FailedSet == {k \in 1..Len(outcome) : outcome[k].op = "failed"}
RecordsOf(d) == {r \in remote : r.src = d}

\* upsertWebflowItem is asked to create: not skipped, titled, not a dry run, no post_id
Unbound(k) ==
  /\ Parsed(k) /\ pushFlag(fmOf(k)) /\ fmOf(k).title # NoTitle
  /\ ~dryRun /\ fmOf(k).post_id = 0

\* ---------------------------------------------------------------------- C1
\* C1 as stated: every processed document that is not skipped, has a title,
\* is not in a dry run and has no post_id has caused exactly one POST and
\* nothing else.
C1_ExactlyOneCreate ==
  \A k \in 1..Len(outcome) :
    Unbound(k) => /\ Len(CallsFor(k)) = 1
                  /\ CallsFor(k)[1].method = "POST"

\* C1 amended: the same for documents whose date is absent or parseable
\* (an unparseable date throws before any request); while such a document
\* is being processed its only request is a POST; and two such documents
\* with colliding slugs whose creates succeed yield two distinct remote items.
C1_CreateNeverMerges ==
  /\ \A k \in 1..Len(files) :
       (Unbound(k) /\ fmOf(k).date # "invalid") =>
         /\ \A n \in 1..Len(CallsFor(k)) : CallsFor(k)[n].method = "POST"
         /\ Len(CallsFor(k)) <= 1
         /\ Done(k) => Len(CallsFor(k)) = 1
  /\ \A k1, k2 \in 1..Len(outcome) :
       ( /\ k1 # k2
         /\ outcome[k1].op = "created" /\ outcome[k2].op = "created"
         /\ slugOf(fmOf(k1)) = slugOf(fmOf(k2)) ) =>
         \E r1, r2 \in remote :
           /\ r1.id # r2.id
           /\ r1.src = files[k1].doc /\ r2.src = files[k2].doc

\* two documents with different titles and the same derived slug, both created
C1_Witness ==
  /\ Len(outcome) = 2
  /\ outcome[1].op = "created" /\ outcome[2].op = "created"
  /\ fmOf(1).title # fmOf(2).title
  /\ slugOf(fmOf(1)) = slugOf(fmOf(2))
  /\ Cardinality(remote) = 2

\* ---------------------------------------------------------------------- C2
\* C2: a document with a post_id only ever causes a PATCH against that id,
\* at most one, never a POST; when the response is a failure (404 included)
\* the document is failed and that PATCH stays its only request.
C2_BoundOnlyUpdates ==
  \A k \in 1..Len(files) :
    (Parsed(k) /\ fmOf(k).post_id # 0) =>
      /\ Len(CallsFor(k)) <= 1
      /\ \A n \in 1..Len(CallsFor(k)) :
           /\ CallsFor(k)[n].method = "PATCH"
           /\ CallsFor(k)[n].id = fmOf(k).post_id
      /\ RecordsOf(files[k].doc) = {}
      /\ (Done(k) /\ k = Len(outcome) /\ lastStatus \notin {0, 200}) =>
           outcome[k].op = "failed"

\* an update answered 404: the document is failed, nothing was created
C2_Witness ==
  /\ Len(outcome) >= 1
  /\ Parsed(Len(outcome)) /\ fmOf(Len(outcome)).post_id # 0
  /\ lastStatus = 404
  /\ outcome[Len(outcome)].op = "failed"
  /\ Len(CallsFor(Len(outcome))) = 1

\* ---------------------------------------------------------------------- C3
\* C3: a document whose push_to_webflow is false (after normalisation) causes
\* no Webflow request and no repository_dispatch, and ends as skipped.
C3_SkipMakesNoCalls ==
  \A k \in 1..Len(files) :
    (Parsed(k) /\ fmOf(k).push = "bool_false") =>
      /\ CallsFor(k) = << >>
      /\ DispatchesFor(k) = << >>
      /\ Done(k) => outcome[k].op = "skipped"

\* a skipped document that has a post_id, in a run that is not a dry run
C3_Witness ==
  \E k \in 1..Len(outcome) :
    /\ Parsed(k) /\ fmOf(k).push = "bool_false" /\ fmOf(k).post_id # 0
    /\ ~dryRun
    /\ outcome[k].op = "skipped"

\* ---------------------------------------------------------------------- C4
\* C4: in a dry run no Webflow request and no repository_dispatch is issued
\* and no remote item appears, whatever the mode and the corpus.
C4_DryRunMakesNoCalls ==
  dryRun => /\ calls = << >>
            /\ dispatchCalls = << >>
            /\ remote = {}
            /\ pending = {}

\* a finished dry run in delta mode that went through a document which would
\* otherwise have been sent
C4_Witness ==
  /\ dryRun /\ ~all /\ pc = "done"
  /\ \E k \in 1..Len(outcome) : outcome[k].op = "dryrun"

\* ---------------------------------------------------------------------- C5
\* C5 as stated: as long as the corpus is unchanged (no post_id written
\* back), every document has at most one remote item created for it,
\* however many runs have been made.
C5_RerunsCreateNoDuplicates ==
  written = {} => \A d \in Docs : Cardinality(RecordsOf(d)) <= 1

\* ---------------------------------------------------------------------- C6
\* C6: with the environment in place, the exit code is non-zero exactly when
\* some document has failed, at every point of the run and so at its end;
\* and a non-zero exit code is never set back to 0.
C6_ExitCodeState ==
  envOk => (exitCode # 0 <=> FailedSet # {})

C6_ExitCode ==
  /\ [](C6_ExitCodeState)
  /\ [][exitCode # 0 => exitCode' # 0]_vars

\* a finished run whose first document failed and whose last one succeeded
C6_Witness ==
  /\ pc = "done" /\ envOk /\ Len(outcome) >= 2
  /\ outcome[1].op = "failed"
  /\ outcome[Len(outcome)].op # "failed"
  /\ exitCode = 1

\* ---------------------------------------------------------------------- C7
\* C7: a failed document never ends the run early: after a failure the run
\* is either at a later document or done with every file given an outcome.
C7_FailureDoesNotHalt ==
  \A k \in FailedSet :
    \/ pc \in {"loop", "await_store", "await_dispatch"} /\ i > k
    \/ pc = "done" /\ Len(outcome) = Len(files)

\* a failed request for the first document, the second one then created
C7_Witness ==
  /\ Len(outcome) = 2
  /\ outcome[1].op = "failed" /\ outcome[1].err = "http"
  /\ outcome[2].op = "created"

\* ---------------------------------------------------------------------- C8
\* C8: the two counters count the outcomes, each file once: errorCount the
\* failed ones and successCount the others, and at the end of a run their
\* sum is the number of resolved files.
C8_OneOutcomePerFile ==
  /\ errorCount = Cardinality(FailedSet)
  /\ successCount = Len(outcome) - Cardinality(FailedSet)
  /\ Len(outcome) <= Len(files)
  /\ pc = "done" => successCount + errorCount = Len(files)

\* a finished run with one file in each counter
C8_Witness ==
  /\ pc = "done" /\ Len(files) = 2
  /\ successCount = 1 /\ errorCount = 1

\* ---------------------------------------------------------------------- C9
\* C9 as stated: a document reported failed after a 429 or 5xx response has
\* had three requests made for it.
C9_TransientRetried ==
  (Len(outcome) >= 1 /\ Transient(lastStatus) /\ outcome[Len(outcome)].op = "failed")
    => Len(CallsFor(Len(outcome))) = 3

\* --------------------------------------------------------------------- C10
\* C10 as stated: once a request has been answered 401, the run handles no
\* further document: no outcome is added and no request is issued.
C10_AuthIsFatal ==
  [][lastStatus = 401 => (outcome' = outcome /\ calls' = calls)]_vars

\* --------------------------------------------------------------------- C11
\* main() has resolved the change set of this run
Resolved == envOk /\ pc # "start"

\* C11: in delta mode the sources are tried in strict priority.  When
\* CHANGED_FILES is set the change set is drawn from its lines alone (each
\* resolved file is one of them, each posts/ markdown line is resolved) and
\* git is never run; otherwise, when git diff produces its list, that list
\* is the change set and the posts directory is not walked; the walk over
\* all documents happens only when neither is available.
C11_DeltaPriority ==
  (Resolved /\ ~all) =>
    /\ ctx.changedSet =>
          /\ "git" \notin consulted
          /\ "walk" \notin consulted
          /\ \A n \in 1..Len(files) : InSeq(ctx.changed, files[n])
          /\ \A n \in 1..Len(ctx.changed) :
                (ctx.changed[n].dir = "posts/" /\ ctx.changed[n].md)
                  => InSeq(files, ctx.changed[n])
    /\ (~ctx.changedSet /\ ctx.git = "diff") =>
          /\ files = ctx.diff
          /\ "walk" \notin consulted
    /\ "walk" \in consulted => (~ctx.changedSet /\ ctx.git # "diff")

\* CHANGED_FILES names one post while git diff would have named three files
C11_Witness ==
  /\ Resolved /\ ~all
  /\ ctx.changedSet /\ ctx.git = "diff"
  /\ Len(files) = 1 /\ Len(ctx.diff) = 3
  /\ pc = "done"

\* --------------------------------------------------------------------- C12
\* delta mode, CHANGED_FILES not set, HEAD has no parent commit
FirstRun == Resolved /\ ~all /\ ~ctx.changedSet /\ ~ctx.parent

\* C12 as stated: in delta mode with no prior revision and no explicit
\* override the change set is exactly what getAllMarkdown returns.
C12_FirstRunIsFull ==
  FirstRun => files = getAllMarkdown(ctx.postsExist)

\* C12 amended: the same, unless a git command has failed and the event
\* payload lists modified markdown files under posts/, in which case the
\* change set is exactly those files.
C12_FirstRunIsFullOrEvent ==
  FirstRun =>
    \/ files = getAllMarkdown(ctx.postsExist)
    \/ /\ ctx.git = "fail" /\ ctx.eventSet
       /\ Len(files) > 0
       /\ \A n \in 1..Len(files) :
            /\ InSeq(ctx.event, files[n])
            /\ files[n].dir = "posts/" /\ files[n].md
       /\ \A n \in 1..Len(ctx.event) :
            (ctx.event[n].dir = "posts/" /\ ctx.event[n].md)
              => InSeq(files, ctx.event[n])

\* a first commit with git working: every post is resolved and processed
C12_Witness ==
  /\ FirstRun /\ ctx.git = "first" /\ ctx.postsExist
  /\ Len(files) = NDocs
  /\ pc = "done" /\ Len(outcome) = NDocs

\* --------------------------------------------------------------------- C13
\* the run walked the posts directory, which does not exist
MissingRoot == Resolved /\ "walk" \in consulted /\ ~ctx.postsExist

\* C13 as stated: when the posts directory does not exist the run ends
\* with a non-zero exit code.
C13_MissingRootFails ==
  (MissingRoot /\ pc = "done") => exitCode # 0

\* C13 amended: when the posts directory does not exist the walk yields an
\* empty change set: the run ends at once, no document is processed, no
\* request is issued and the exit code is 0.
C13_MissingRootIsEmptyRun ==
  MissingRoot =>
    /\ files = << >>
    /\ pc = "done"
    /\ outcome = << >> /\ calls = << >>
    /\ exitCode = 0

\* a finished --all run in a checkout without a posts directory
C13_Witness ==
  /\ MissingRoot /\ all
  /\ pc = "done" /\ exitCode = 0

\* --------------------------------------------------------------------- C14
\* an update of a document whose post_id was in the repository from the
\* start: the write-back workflow never touched it, its content is unchanged
UpdateOfUnchanged(c) == c.method = "PATCH" /\ c.doc \notin written

CarriesNewId(k) ==
  \A n \in 1..Len(DispatchesFor(k)) :
    /\ DispatchesFor(k)[n].doc = files[k].doc
    /\ DispatchesFor(k)[n].itemId \in {r.id : r \in RecordsOf(files[k].doc)}

C16_RequiredFieldsEnforced ==
  \A n \in 1..Len(calls) :
    /\ corpus[calls[n].doc].title # NoTitle
    /\ corpus[calls[n].doc].date # "absent"
    /\ corpus[calls[n].doc].push # "absent"

\* --------------------------------------------------------------------- C17
IsTrueWord(str) == toLowerCase(str) \in {WordTrue, WordYes, WordOne}

C18_DraftIsNotPublished ==
  \A n \in 1..Len(calls) :
    /\ calls[n].body.isDraft = ~calls[n].body.isPublished
    /\ calls[n].body.isPublished =
         (corpus[calls[n].doc].published \in {"bool_true", "str_true"})
    /\ corpus[calls[n].doc].published = "absent" => calls[n].body.isDraft

\* a published document sent live and one without the field sent as a draft
C18_Witness ==
  \E n1, n2 \in 1..Len(calls) :
    /\ corpus[calls[n1].doc].published = "str_true" /\ ~calls[n1].body.isDraft
    /\ corpus[calls[n2].doc].published = "absent" /\ calls[n2].body.isDraft

\* --------------------------------------------------------------------- C19
\* C19: when validate-frontmatter exits, every markdown file under posts has
\* been validated, whatever the earlier ones produced; the exit code is 1
\* exactly when some file produced an error and 0 otherwise, so a file that
\* only produced warnings does not change it.
C19_ExitOneIffError ==
  vpc = "done" =>
    /\ ctx.postsExist => Len(reports) = Len(posts)
    /\ vexit = (IF \E k \in 1..Len(reports) : reports[k].errors # {}
               THEN 1 ELSE 0)
    /\ (\A k \in 1..Len(posts) :
          /\ posts[k].wellformed
          /\ posts[k].title \in {"string", "empty"}
          /\ posts[k].date = "iso"
          /\ posts[k].push_to_webflow = "boolean") => vexit = 0

\* the first file failed, the last one was still validated and only
\* produced a warning, and the exit code is 1
C19_Witness ==
  /\ vpc = "done" /\ vexit = 1
  /\ Len(reports) = NDocs
  /\ reports[1].errors # {}
  /\ reports[NDocs].errors = {} /\ reports[NDocs].warnings # {}

NonRetryable(st) == st \in {400, 401, 404}

\* C21: once Webflow has answered a document's request with 400, 401 or
\* 404, that document is reported failed, one request was made for it and
\* no other, and nothing was created or dispatched for it.
C21_NonRetryableSurfacesAtOnce ==
  NonRetryable(lastStatus) =>
    /\ Len(outcome) >= 1
    /\ outcome[Len(outcome)] = Outcome("failed", "http")
    /\ Len(CallsFor(Len(outcome))) = 1
    /\ DispatchesFor(Len(outcome)) = << >>
    /\ pc \in {"loop", "done"}

\* an update answered 404 and reported failed, with more files to go
C21_Witness ==
  /\ lastStatus = 404 /\ pc = "loop"
  /\ Len(outcome) = 1 /\ outcome[1].op = "failed"
  /\ calls[1].method = "PATCH"

\* --------------------------------------------------------------------- C22
Settled == rpc \in {"returned", "thrown"}

\* what C22 says of every state of a call
C22_RetryState ==
  /\ Len(history) <= maxAttempts
  /\ rpc = "returned" =>
       /\ history # << >>
       /\ history[Len(history)].ok
       /\ \A n \in 1..(Len(history) - 1) : ~history[n].ok
       /\ result = [kind |-> "value", of |-> Len(history)]
  /\ (rpc = "thrown" /\ \A n \in 1..Len(history) : history[n].status \in {429, 500}) =>
       /\ Len(history) = maxAttempts
       /\ result = [kind |-> "error", of |-> maxAttempts]
  /\ \A n \in 1..Len(delays) : delays[n] <= 8000
  /\ \A n \in 1..(Len(delays) - 1) :
       delays[n + 1] > delays[n] \/ (delays[n] = 8000 /\ delays[n + 1] = 8000)

\* C22: retryWithBackoff invokes fn at most maxAttempts times and then
\* settles; it returns the value of the first successful invocation; when
\* every invocation fails with a retryable error it throws the error of the
\* last one; the delays slept are at most 8000 ms and each is longer than
\* the one before until 8000 ms is reached.
C22_RetryTerminates == []C22_RetryState /\ <>Settled

\* five retryable failures: the last error thrown, the fourth delay capped
C22_Witness ==
  /\ rpc = "thrown" /\ maxAttempts = 5 /\ baseDelay = 1000
  /\ Len(history) = 5 /\ result.of = 5
  /\ delays = << 1000, 2000, 4000, 8000 >>

\* --------------------------------------------------------------------- C23
\* the requests recorded within the window that ends now
Recorded == {n \in 1..Len(requests) : clock - requests[n] < windowMs}

\* C23 as stated: at every instant the number of requests recorded within
\* the last windowMs is at most maxRequests.
C23_WindowNeverExceeded == Cardinality(Recorded) <= maxRequests

\* --------------------------------------------------------------------- C24
\* the requests of documents that have not reached their outcome yet
InFlight == {n \in 1..Len(calls) : calls[n].idx > Len(outcome)}

\* C24: at most one request is in flight, and it belongs to the document
\* main() is at; while main() is at document i, exactly the i - 1 documents
\* before it have reached their outcome; no dispatch belongs to a later
\* document either.
C24_OneDocumentAtATime ==
  /\ Cardinality(InFlight) <= 1
  /\ \A n \in InFlight :
       /\ calls[n].idx = i
       /\ pc \in {"await_store", "await_dispatch"}
  /\ pc \in {"loop", "await_store", "await_dispatch"} => Len(outcome) = i - 1
  /\ \A n \in 1..Len(dispatchCalls) : dispatchCalls[n].idx <= Len(outcome) + 1

\* the second document's request is in flight after the first one's outcome
C24_Witness ==
  /\ pc = "await_store" /\ i = 2
  /\ Len(calls) = 2 /\ calls[1].idx = 1 /\ calls[2].idx = 2
  /\ Len(outcome) = 1

\* --------------------------------------------------------------------- C25
\* the request in flight is for a document that still has no post_id
\* although an earlier run has created an item for it
RerunBeforeWriteback ==
  /\ pc = "await_store"
  /\ corpus[calls[Len(calls)].doc].post_id = 0
  /\ RecordsOf(calls[Len(calls)].doc) # {}

\* C25, the request: it is a create, not an update of the existing item
C25_RerunCreatesAgain ==
  RerunBeforeWriteback =>
    /\ calls[Len(calls)].method = "POST"
    /\ calls[Len(calls)].id = 0

\* C25, the response: when Webflow accepts that create, the document has
\* one more remote item than before, so at least two
C25_AcceptedCreateAddsItem ==
  (RerunBeforeWriteback /\ lastStatus' = 200) =>
    /\ Cardinality({r \in remote' : r.src = calls[Len(calls)].doc})
         = Cardinality(RecordsOf(calls[Len(calls)].doc)) + 1
    /\ Cardinality({r \in remote' : r.src = calls[Len(calls)].doc}) >= 2

C26_ChangedAreExistingPosts ==
  (Resolved /\ ~all) =>
    \A n \in 1..Len(files) : InSeq(getAllMarkdown(ctx.postsExist), files[n])

\* --------------------------------------------------------------------- C27
\* lowercase letters and digits separated by single hyphens, no hyphen at
\* either end
IsKebabForm(s) ==
  /\ \A k \in 1..Len(s) : IsAlnum(s[k]) \/ s[k] = "-"
  /\ \A k \in 1..Len(s) - 1 : ~(s[k] = "-" /\ s[k + 1] = "-")
  /\ s # << >> => (s[1] # "-" /\ s[Len(s)] # "-")

\* C27: every payload sent carries a non-empty name and a non-empty slug;
\* the slug is the frontmatter slug verbatim when there is one, otherwise the
\* kebab form of the title.
C27_NameAndSlugNonEmpty ==
  \A n \in 1..Len(calls) :
    LET fm == corpus[calls[n].doc]
        body == calls[n].body
    IN /\ body.name # << >>
       /\ body.slug # << >>
       /\ fm.slug # << >> => body.slug = fm.slug
       /\ fm.slug = << >> =>
            (body.slug = kebab(fm.title) /\ IsKebabForm(body.slug))

\* --------------------------------------------------------------------- C28
\* the frontmatter the sync script may read from a post the validator saw as
\* doc: a boolean push_to_webflow is true or false, a numeric title is "1"
SyncViews(doc) ==
  {[wellformed |-> doc.wellformed,
    push |-> p,
    title |-> IF doc.title = "string" THEN TitleA
              ELSE IF doc.title = "number" THEN << "1" >>
              ELSE NoTitle,
    date |-> IF doc.date = "iso" THEN "valid"
             ELSE IF doc.date = "bad" THEN "invalid"
             ELSE "absent",
    post_id |-> 0,
    slug |-> << >>,
    published |-> "absent"] :
     p \in IF doc.push_to_webflow = "boolean" THEN {"bool_true", "bool_false"}
           ELSE IF doc.push_to_webflow = "string" THEN {"str_true", "str_other"}
           ELSE {"absent"}}

\* C28: a post the validator reports no error for never fails in
\* upsertWebflowItem with a missing-required-field error.
C28_ValidatedIsAccepted ==
  \A k \in 1..Len(reports) :
    reports[k].errors = {} =>
      \A fm \in SyncViews(posts[k]) :
        upsertWebflowItem(normalized(fm), TRUE).err # "title"

\* --------------------------------------------------------------------- C29
\* files[k] was read and its frontmatter has no title
Titleless(k) == Parsed(k) /\ corpus[files[k].doc].title = NoTitle

\* C29: the skip decision comes before the title check.  A processed
\* document without title whose push_to_webflow is false is skipped and
\* counted as a success, with no request; with push_to_webflow true or
\* absent it fails with the missing-title error and is counted as an error.
C29_SkipBeforeTitleCheck ==
  /\ \A k \in 1..Len(outcome) :
       Titleless(k) =>
         IF corpus[files[k].doc].push = "bool_false"
         THEN /\ outcome[k] = Outcome("skipped", "none")
              /\ CallsFor(k) = << >>
         ELSE /\ corpus[files[k].doc].push \in {"bool_true", "absent"}
              /\ outcome[k] = Outcome("failed", "title")
              /\ CallsFor(k) = << >>
  /\ errorCount = Cardinality(FailedSet)
  /\ successCount = Len(outcome) - Cardinality(FailedSet)

\* one run has skipped a document without title and failed another one
\* for its missing title
C29_Witness ==
  \E j, k \in 1..Len(outcome) :
    /\ Titleless(j) /\ corpus[files[j].doc].push = "bool_false"
    /\ Titleless(k) /\ corpus[files[k].doc].push = "absent"
    /\ outcome[j].op = "skipped"
    /\ outcome[k].err = "title"
    /\ successCount = 1 /\ errorCount = 1

\* --------------------------------------------------------------------- C30
\* a delta run whose change set came out empty
EmptyDelta == Resolved /\ ~all /\ files = << >>

\* C30: a delta run with an empty change set ends at once and successfully:
\* no document is processed, no request is made, the exit code stays 0.
C30_EmptyDeltaSucceeds ==
  EmptyDelta =>
    /\ pc = "done"
    /\ outcome = << >>
    /\ successCount = 0 /\ errorCount = 0
    /\ calls = << >> /\ dispatchCalls = << >>
    /\ exitCode = 0

\* git diff named no post although the posts directory holds posts
C30_Witness ==
  /\ EmptyDelta
  /\ ~ctx.changedSet /\ ctx.git = "diff" /\ ctx.diff = << >>
  /\ ctx.postsExist
  /\ pc = "done"

====
